---- MODULE Spec2Model ----
(***************************************************************************)
(* Signal ingestion and feature extraction of the maternal assistant       *)
(* backend: backend/utils/signal_processor.py and                          *)
(* backend/utils/feature_extractor.py, and the two signal upload handlers  *)
(* of backend/app.py served by concurrent worker threads.                  *)
(*                                                                         *)
(* Numbers.  Samples are integers (16-bit sample values, beats per         *)
(* minute).  Every value the code derives from them by +, -, *, / is kept  *)
(* as an exact fraction [num, den] in lowest terms.  A square root is kept *)
(* as the term [sqrt |-> q] (0 for q = 0), and a value numpy or scipy      *)
(* computes with transcendental arithmetic (FFT magnitudes, skewness,      *)
(* kurtosis, a logarithm) is kept as a term [fn |-> ..., of |-> ...] over  *)
(* the exact data it is computed from.  An exception is the record         *)
(* [raised |-> TRUE, exc |-> <its type>].  Arithmetic is exact: sums and    *)
(* products of integer-valued samples of this size are exact in IEEE       *)
(* doubles too; the rounding of quotients is not modelled.                 *)
(***************************************************************************)
EXTENDS Integers, Sequences, FiniteSets

VARIABLES
    signal_data,   \* the signal array handed to the function under call
    nan_mask,      \* np.isnan(signal_data): TRUE where the sample is NaN
    fs,            \* the files of the .dat path: header, record, raw bytes
    pc,            \* "ready" before the call, "done" after it returned or raised
    op,            \* the function that was called
    args,          \* its remaining arguments
    ret,           \* what it returned, or the exception it raised
    raw_reads,     \* calls of read_dat_file_only made during the call
    uploads,       \* the files of UPLOAD_FOLDER by path
    requests       \* the request each worker thread of the server handles

vars == <<signal_data, nan_mask, fs, pc, op, args, ret, raw_reads,
          uploads, requests>>

\* ------------------------------------------------------------- bounds

\* Longest freely chosen part of a signal.
MaxLen == 4

\* ------------------------------------------------------------ numbers

Abs(x) == IF x < 0 THEN 0 - x ELSE x

RECURSIVE Gcd(_, _)
Gcd(a, b) == IF b = 0 THEN a ELSE Gcd(b, a % b)

\* The fraction n/d (d # 0) in lowest terms with a positive denominator.
R(n, d) ==
    LET g == Gcd(Abs(n), Abs(d))
        s == IF d < 0 THEN 0 - 1 ELSE 1
    IN  [num |-> s * (n \div g), den |-> s * (d \div g)]

QInt(n) == [num |-> n, den |-> 1]
Zero == QInt(0)
QAdd(a, b) == R(a.num * b.den + b.num * a.den, a.den * b.den)
QSub(a, b) == R(a.num * b.den - b.num * a.den, a.den * b.den)
QMul(a, b) == R(a.num * b.num, a.den * b.den)
QLt(a, b) == a.num * b.den < b.num * a.den
QLe(a, b) == a.num * b.den <= b.num * a.den

\* np.sqrt of an exact non-negative value.
Sqrt(q) == IF q.num = 0 THEN Zero ELSE [sqrt |-> q]

\* A value of a library routine that is not computed exactly here.
Opaque(f, x) == [fn |-> f, of |-> x]

Ok(v) == [raised |-> FALSE, exc |-> "", value |-> v]
Raise(e) == [raised |-> TRUE, exc |-> e, value |-> <<>>]

\* s[lo] + ... + s[hi], summed by halves (exact on integers in any order).
RECURSIVE SumRange(_, _, _)
SumRange(s, lo, hi) ==
    IF lo > hi THEN 0
    ELSE IF lo = hi THEN s[lo]
    ELSE SumRange(s, lo, (lo + hi) \div 2) + SumRange(s, (lo + hi) \div 2 + 1, hi)

\* np.sum of an array, and of its squares.
SumSeq(s) == SumRange(s, 1, Len(s))
SumSq(s) == SumSeq([i \in 1..Len(s) |-> s[i] * s[i]])

\* np.max and np.min of a non-empty array.
MaxSeq(s) == CHOOSE v \in {s[i] : i \in 1..Len(s)} : \A i \in 1..Len(s) : s[i] <= v
MinSeq(s) == CHOOSE v \in {s[i] : i \in 1..Len(s)} : \A i \in 1..Len(s) : s[i] >= v

\* np.mean, np.var (population variance) and np.std of a non-empty array.
Mean(s) == R(SumSeq(s), Len(s))
\* VarNum is the sum of the squared deviations (N * x - sum x)^2, that is
\* N^3 times the variance mean(abs(x - mean(x))^2).
VarNum(s) ==
    LET S == SumSeq(s)
    IN  SumSeq([i \in 1..Len(s) |-> (Len(s) * s[i] - S) * (Len(s) * s[i] - S)])
Var(s) == R(VarNum(s), Len(s) * Len(s) * Len(s))
Std(s) == Sqrt(Var(s))

\* The k-th smallest sample (1-based): element k of the sorted array.
Kth(s, k) ==
    CHOOSE v \in {s[i] : i \in 1..Len(s)} :
        /\ Cardinality({i \in 1..Len(s) : s[i] < v}) < k
        /\ k <= Cardinality({i \in 1..Len(s) : s[i] <= v})

\* np.median: the middle of the sorted array, the mean of the two middles
\* when the length is even.
Median(s) ==
    LET n == Len(s)
    IN  IF n % 2 = 1 THEN QInt(Kth(s, (n + 1) \div 2))
        ELSE R(Kth(s, n \div 2) + Kth(s, n \div 2 + 1), 2)

Slice(s, lo, hi) == [k \in 1..(hi - lo + 1) |-> s[lo + k - 1]]

Min2(a, b) == IF a < b THEN a ELSE b
Max2(a, b) == IF a > b THEN a ELSE b

\* ------------------------------------------- feature_extractor.py

\* calculate_baseline_fhr: the median of the signal.
calculate_baseline_fhr(s) == Median(s)

\* One iteration of detect_accelerations' loop over the samples; st is
\* [count, inside] = (accelerations, in_acceleration).
AccStepNoReset(st, val, baseline, threshold) ==
    IF QLt(QAdd(baseline, threshold), QInt(val))
    THEN [count |-> IF st.inside THEN st.count ELSE st.count + 1, inside |-> TRUE]
    ELSE st

AccStep(st, val, baseline, threshold) ==
    IF QLt(QAdd(baseline, threshold), QInt(val))
    THEN [count |-> IF st.inside THEN st.count ELSE st.count + 1, inside |-> TRUE]
    ELSE [count |-> st.count, inside |-> FALSE]

\* The loop over samples lo..hi in order, from state st.  The range is split
\* in halves, and the state after the first half is computed before the
\* second half starts, only to keep the evaluation shallow.
RECURSIVE AccLoop(_, _, _, _, _, _)
AccLoop(s, lo, hi, st, baseline, threshold) ==
    IF lo > hi THEN st
    ELSE IF lo = hi THEN AccStep(st, s[lo], baseline, threshold)
    ELSE LET half == AccLoop(s, lo, (lo + hi) \div 2, st, baseline, threshold)
         IN  IF half.count >= 0
             THEN AccLoop(s, (lo + hi) \div 2 + 1, hi, half, baseline, threshold)
             ELSE half

detect_accelerations(s, baseline, threshold) ==
    AccLoop(s, 1, Len(s), [count |-> 0, inside |-> FALSE], baseline, threshold).count

\* One iteration of detect_decelerations' loop.
DecStep(st, val, baseline, threshold) ==
    IF QLt(QInt(val), QSub(baseline, threshold))
    THEN [count |-> IF st.inside THEN st.count ELSE st.count + 1, inside |-> TRUE]
    ELSE [count |-> st.count, inside |-> FALSE]

RECURSIVE DecLoop(_, _, _, _, _, _)
DecLoop(s, lo, hi, st, baseline, threshold) ==
    IF lo > hi THEN st
    ELSE IF lo = hi THEN DecStep(st, s[lo], baseline, threshold)
    ELSE LET half == DecLoop(s, lo, (lo + hi) \div 2, st, baseline, threshold)
         IN  IF half.count >= 0
             THEN DecLoop(s, (lo + hi) \div 2 + 1, hi, half, baseline, threshold)
             ELSE half

detect_decelerations(s, baseline, threshold) ==
    DecLoop(s, 1, Len(s), [count |-> 0, inside |-> FALSE], baseline, threshold).count

\* The default threshold of both detectors.
DefaultThreshold == 15

\* calculate_sample_entropy -------------------------------------------

\* The length below which the entropy is 0.0 without any computation.
MinEntropyLen == 10

\* Default pattern length m and tolerance r = 0.2.
DefaultM == 2
DefaultR == R(1, 5)

\* abs(ua - va) <= r for two samples of the z-scored signal, r scaled by the
\* z-scored signal's standard deviation (1).  With z = (x - mean) / std and
\* v = VarNum(x) = N^3 * std^2 this is
\* rden^2 * N^3 * (xa - xb)^2 <= rnum^2 * v.  A constant signal has std 0:
\* the z-scores and r are NaN and every comparison with NaN is False.
CloseSamples(s, a, b, r, v) ==
    /\ v # 0
    /\ r.num >= 0
    /\ r.den * r.den * Len(s) * Len(s) * Len(s) * (s[a] - s[b]) * (s[a] - s[b])
          <= r.num * r.num * v

\* _maxdist(x[i], x[j]) <= r for the templates of length m that start at
\* (0-based) i and j: the largest elementwise distance is within r.
TemplatesMatch(s, i, j, m, r, v) ==
    \A k \in 0..(m - 1) : CloseSamples(s, i + k + 1, j + k + 1, r, v)

\* The number of templates of length m: range(N - m + 1).
NumTemplates(s, m) == Max2(0, Len(s) - m + 1)

\* _phi(m) raises ValueError when max() gets an empty template pair, that is
\* when m <= 0 and there are two templates to compare.
PhiRaises(s, m) == m <= 0 /\ NumTemplates(s, m) >= 2

\* _phi(m), for m >= 1: sum(C), where C[i] counts the templates j # i
\* within r of template i.
Phi(s, m, r) ==
    LET v == VarNum(s)
        T == 0..(NumTemplates(s, m) - 1)
    IN  Cardinality({p \in T \X T :
                        p[1] # p[2] /\ TemplatesMatch(s, p[1], p[2], m, r, v)})

\* Lines 200-215: the computation on a signal that passed the length test.
EntropyCompute(s, m, r) ==
    LET phi_m == Phi(s, m, r)
        phi_m1 == Phi(s, m + 1, r)
    IN  IF PhiRaises(s, m) THEN Raise("ValueError")
        ELSE IF phi_m <= 0 THEN Ok(Zero)
        ELSE IF PhiRaises(s, m + 1) THEN Raise("ValueError")
        ELSE IF phi_m1 <= 0 THEN Ok(Zero)
        ELSE Ok(Opaque("-log", R(phi_m1, phi_m)))

\* The try block without its length test.
EntropyBodyNoFloor(s, m, r) == EntropyCompute(s, m, r)

\* The body of the try block.
EntropyBody(s, m, r) ==
    IF Len(s) < MinEntropyLen THEN Ok(Zero)
    ELSE EntropyCompute(s, m, r)

\* Without the bare except: the exception leaves the function.
EntropyNoCatch(s, m, r) == EntropyBody(s, m, r)

\* try: ... except: return 0.0
calculate_sample_entropy(s, m, r) ==
    LET body == EntropyBody(s, m, r)
    IN  IF body.raised THEN Ok(Zero) ELSE body

\* Spectrum helpers ----------------------------------------------------

\* np.fft.fftfreq(N)[k], 0-based k: k/N up to the middle, (k - N)/N after it.
FftFreq(N, k) == IF k <= (N - 1) \div 2 THEN R(k, N) ELSE R(k - N, N)

\* The bins of the mask (fft_freq >= lo) & (fft_freq < hi).
BandBins(N, lo, hi) ==
    {k \in 0..(N - 1) : QLe(lo, FftFreq(N, k)) /\ QLt(FftFreq(N, k), hi)}

\* np.sum(fft_vals[mask]): 0.0 over an empty selection.
BandPower(s, lo, hi) ==
    IF BandBins(Len(s), lo, hi) = {} THEN Zero
    ELSE Opaque("sum|fft|", <<s, BandBins(Len(s), lo, hi)>>)

\* len(fft_vals[1:len(fft_vals)//2]): the candidates of the dominant bin.
DominantCandidates(N) == Max2(0, Min2(N, N \div 2) - 1)

\* fft_freq[np.argmax(fft_vals[1:N//2]) + 1]; with one candidate it is bin 1.
DominantFreq(s) ==
    IF DominantCandidates(Len(s)) = 1 THEN FftFreq(Len(s), 1)
    ELSE Opaque("fft_freq[argmax|fft|]", s)

Sign(x) == IF x > 0 THEN 1 ELSE IF x < 0 THEN 0 - 1 ELSE 0

\* np.sum(np.diff(np.sign(signal_data)) != 0)
ZeroCrossings(s) ==
    Cardinality({i \in 1..(Len(s) - 1) : Sign(s[i + 1]) - Sign(s[i]) # 0})

\* autocorr = np.correlate(x, x, 'full')[len // 2:]: lag 0 and lag 1.
Autocorr0(s) == SumSq(s)
Autocorr1(s) == SumSeq([i \in 1..(Len(s) - 1) |-> s[i] * s[i + 1]])

\* extract_ehg_features ------------------------------------------------

\* Lines 28-50: the eleven features before the dominant frequency.
EhgHead(s) ==
    << Mean(s), Std(s), Var(s), Sqrt(R(SumSq(s), Len(s))),
       QInt(MaxSeq(s) - MinSeq(s)), Median(s),
       Opaque("skew", s), Opaque("kurtosis", s),
       BandPower(s, R(1, 5), R(1, 2)),
       BandPower(s, R(1, 2), QInt(1)),
       BandPower(s, QInt(1), QInt(4)) >>

\* Lines 53-61: dominant frequency, zero crossing rate, energy.
EhgMiddle(s) ==
    << DominantFreq(s), R(ZeroCrossings(s), Len(s)), QInt(SumSq(s)) >>

\* Line 66: autocorr[1] / autocorr[0] if autocorr[0] != 0 else 0.
EhgAutocorr(s) ==
    IF Autocorr0(s) = 0 THEN Ok(Zero)
    ELSE IF Len(s) < 2 THEN Raise("IndexError")
    ELSE Ok(R(Autocorr1(s), Autocorr0(s)))

extract_ehg_features(s) ==
    IF DominantCandidates(Len(s)) = 0 THEN Raise("ValueError")
    ELSE IF EhgAutocorr(s).raised THEN EhgAutocorr(s)
    ELSE Ok(EhgHead(s) \o EhgMiddle(s)
            \o << EhgAutocorr(s).value,
                  calculate_sample_entropy(s, DefaultM, DefaultR).value >>)

\* extract_ctg_features ------------------------------------------------

\* The cap of the rolling window and the divisor of the signal length.
MaxWindow == 60
WindowDivisor == 10

\* Lines 102-106: mean absolute first difference, 0 for one sample.
ShortTermNoElse(s) ==
    IF Len(s) > 1
    THEN << R(SumSeq([i \in 1..(Len(s) - 1) |-> Abs(s[i + 1] - s[i])]), Len(s) - 1) >>
    ELSE << >>

ShortTerm(s) ==
    IF Len(s) > 1
    THEN << R(SumSeq([i \in 1..(Len(s) - 1) |-> Abs(s[i + 1] - s[i])]), Len(s) - 1) >>
    ELSE << Zero >>

\* window_size = min(60, len(signal_data) // 10)
WindowSize(s) == Min2(MaxWindow, Len(s) \div WindowDivisor)

\* range(len(signal_data) - window_size): the window starts the loop visits.
NumWindows(s) == Max2(0, Len(s) - WindowSize(s))

\* rolling_std, kept as the variances whose roots it holds.
RollingVars(s) ==
    [i \in 1..NumWindows(s) |-> Var(Slice(s, i, i + WindowSize(s) - 1))]

\* np.mean(rolling_std) if rolling_std else 0
MeanOfStds(vs) ==
    IF vs = <<>> THEN Zero
    ELSE IF \A i \in 1..Len(vs) : vs[i].num = 0 THEN Zero
    ELSE Opaque("mean(sqrt)", vs)

\* Lines 109-117.
LongTerm(s) ==
    IF WindowSize(s) > 1 THEN << MeanOfStds(RollingVars(s)) >> ELSE << Zero >>

\* Line 138: np.sum(signal_data > baseline) / len(signal_data)
AboveBaselineGe(s, baseline) ==
    R(Cardinality({i \in 1..Len(s) : QLe(baseline, QInt(s[i]))}), Len(s))

AboveBaseline(s, baseline) ==
    R(Cardinality({i \in 1..Len(s) : QLt(baseline, QInt(s[i]))}), Len(s))

extract_ctg_features(s) ==
    LET baseline == calculate_baseline_fhr(s)
    IN  Ok(<< Mean(s), Std(s), Var(s), baseline >>
           \o ShortTerm(s)
           \o LongTerm(s)
           \o << QInt(detect_accelerations(s, baseline, QInt(DefaultThreshold))),
                 QInt(detect_decelerations(s, baseline, QInt(DefaultThreshold))),
                 QInt(MaxSeq(s) - MinSeq(s)),
                 Opaque("max|fft|", s),
                 calculate_sample_entropy(s, DefaultM, DefaultR).value,
                 AboveBaseline(s, baseline),
                 Opaque("skew", s), Opaque("kurtosis", s) >>)

\* --------------------------------------------- signal_processor.py

\* An array of floats data[i] / (over + eps): a plain array has over = 1 and
\* eps = 0, a z-scored one holds the deviations from the mean over the
\* standard deviation.
Array(data, over, eps) == [data |-> data, over |-> over, eps |-> eps]
Plain(s) == Array([i \in 1..Len(s) |-> QInt(s[i])], QInt(1), Zero)

\* The epsilon 1e-8 of read_dat_file_only's denominator.
Epsilon == R(1, 100000000)

\* np.fromfile(f, dtype=np.int16): little-endian pairs of bytes as signed
\* 16-bit integers; a trailing odd byte is not an item.
Int16(lo, hi) ==
    IF lo + 256 * hi >= 32768 THEN lo + 256 * hi - 65536 ELSE lo + 256 * hi
FromFile(bytes) ==
    [k \in 1..(Len(bytes) \div 2) |-> Int16(bytes[2 * k - 1], bytes[2 * k])]

\* Lines 64-65: (data - np.mean(data)) / (np.std(data) + 1e-8), skipped for
\* an empty array.
NormalizeRaw(data) ==
    IF Len(data) > 0
    THEN Array([i \in 1..Len(data) |-> QSub(QInt(data[i]), Mean(data))],
               Std(data), Epsilon)
    ELSE Plain(data)

\* An exception whose message carries the one it was raised from.
RaiseFrom(e, cause) == [raised |-> TRUE, exc |-> e, value |-> <<cause>>]

\* read_dat_file_only on the .dat file f = [readable, bytes].
read_dat_file_only(f) ==
    IF ~f.readable THEN RaiseFrom("Exception", "OSError")
    ELSE Ok(NormalizeRaw(FromFile(f.bytes)))

\* Lines 33-41: record.p_signal (rows of channel values); channel 0 when
\* there are several channels, the flattened array otherwise.
RECURSIVE Flatten(_)
Flatten(rows) == IF rows = <<>> THEN <<>> ELSE Head(rows) \o Flatten(Tail(rows))

SelectChannel(p_signal) ==
    IF Len(p_signal) > 0 /\ Len(p_signal[1]) > 1
    THEN Plain([i \in 1..Len(p_signal) |-> p_signal[i][1]])
    ELSE Plain(Flatten(p_signal))

\* The except branch (lines 43-46) left out: the exception propagates.
ProcessNoFallback(files) ==
    IF ~files.hea
    THEN [ret |-> read_dat_file_only(files.dat), reads |-> 1]
    ELSE IF ~files.record.ok
    THEN [ret |-> Raise("wfdb error"), reads |-> 0]
    ELSE [ret |-> Ok(SelectChannel(files.record.p_signal)), reads |-> 0]

\* process_signal_file on the files [hea, record, dat] of filepath: what it
\* returns or raises, and how many times it called read_dat_file_only.  An
\* exception anywhere in the try block, the one of the first raw read
\* included, is caught at line 43 and followed by a raw read.
process_signal_file(files) ==
    IF ~files.hea
    THEN IF read_dat_file_only(files.dat).raised
         THEN [ret |-> read_dat_file_only(files.dat), reads |-> 2]
         ELSE [ret |-> read_dat_file_only(files.dat), reads |-> 1]
    ELSE IF ~files.record.ok
    THEN [ret |-> read_dat_file_only(files.dat), reads |-> 1]
    ELSE [ret |-> Ok(SelectChannel(files.record.p_signal)), reads |-> 0]

\* preprocess_signal ---------------------------------------------------

\* signal_data[~np.isnan(signal_data)]: the samples that are not NaN, in order.
RECURSIVE Kept(_, _)
Kept(s, mask) ==
    IF s = <<>> THEN <<>>
    ELSE (IF mask[1] THEN <<>> ELSE <<s[1]>>) \o Kept(Tail(s), Tail(mask))

\* Lines 87-90 with the z-score applied to every non-empty signal.
NormalizeUnguarded(s) ==
    IF Len(s) > 0
    THEN Array([i \in 1..Len(s) |-> QSub(QInt(s[i]), Mean(s))], Std(s), Zero)
    ELSE Plain(s)

\* Lines 87-90: z-score when the standard deviation is positive.  Mean and
\* standard deviation of an empty array are NaN, and NaN > 0 is False.
Normalize(s) ==
    IF Len(s) > 0 /\ VarNum(s) > 0
    THEN Array([i \in 1..Len(s) |-> QSub(QInt(s[i]), Mean(s))], Std(s), Zero)
    ELSE Plain(s)

\* np.linspace(0, n - 1, t)[j], 0-based j.
NewIndex(n, t, j) == IF t = 1 THEN Zero ELSE R(j * (n - 1), t - 1)

\* floor of a non-negative fraction.
Floor(q) == q.num \div q.den

\* The interpolation started from the right neighbour instead of the left.
InterpFromRight(data, x) ==
    IF Floor(x) >= Len(data) - 1 THEN data[Len(data)]
    ELSE QAdd(data[Floor(x) + 2],
              QMul(QSub(x, QInt(Floor(x))),
                   QSub(data[Floor(x) + 2], data[Floor(x) + 1])))

\* np.interp(x, old_indices, data) for old_indices = 0, 1, ..., n - 1 and
\* 0 <= x <= n - 1: linear between the two neighbouring samples.
Interp(data, x) ==
    IF Floor(x) >= Len(data) - 1 THEN data[Len(data)]
    ELSE QAdd(data[Floor(x) + 1],
              QMul(QSub(x, QInt(Floor(x))),
                   QSub(data[Floor(x) + 2], data[Floor(x) + 1])))

\* Lines 93-97.  target is [none, n]; np.interp raises ValueError on an
\* empty array of sample points.
Resample(a, target) ==
    IF target.none \/ Len(a.data) = target.n THEN Ok(a)
    ELSE IF target.n = 0 THEN Ok(Array(<<>>, a.over, a.eps))
    ELSE IF Len(a.data) = 0 THEN Raise("ValueError")
    ELSE Ok(Array([j \in 1..target.n |->
                      Interp(a.data, NewIndex(Len(a.data), target.n, j - 1))],
                  a.over, a.eps))

preprocess_signal(s, mask, target) == Resample(Normalize(Kept(s, mask)), target)

\* segment_signal ------------------------------------------------------

\* int(segment_length * (1 - overlap)) for an overlap q in [0, 1): the
\* product truncated towards zero.
SegmentStep(segment_length, overlap) ==
    Floor(QMul(QInt(segment_length), QSub(QInt(1), overlap)))

\* range(0, N - segment_length + 1, step), for step > 0.
SegmentStarts(N, segment_length, step) ==
    IF N - segment_length + 1 <= 0 THEN <<>>
    ELSE [k \in 1..((N - segment_length) \div step + 1) |-> (k - 1) * step]

\* range() raises ValueError when its step is zero.
segment_signal(s, segment_length, overlap) ==
    LET step == SegmentStep(segment_length, overlap)
        starts == SegmentStarts(Len(s), segment_length, step)
    IN  IF step = 0 THEN Raise("ValueError")
        ELSE Ok([k \in 1..Len(starts) |->
                    Slice(s, starts[k] + 1, starts[k] + segment_length)])

\* ------------------------------------------------------------- app.py

\* Lines 17-18.
UPLOAD_FOLDER == "uploads"
ALLOWED_EXTENSIONS == {"dat"}

\* The name of an uploaded file as the client sent it: the directory parts
\* before the name, the part before the last dot and the part after it
\* (ext = "" for a name without a dot).
FileName(dirs, stem, ext) == [dirs |-> dirs, stem |-> stem, ext |-> ext]
EmptyName == FileName(<<>>, "", "")

\* Line 45-46: the name has a dot and its extension is allowed.
allowed_file(filename) == filename.ext \in ALLOWED_EXTENSIONS

\* werkzeug's secure_filename: path separators become "_" and leading dots
\* and underscores are stripped, so the ".." parts vanish and the other
\* directory parts stay as a prefix of the name.
secure_filename(filename) ==
    [prefix |-> SelectSeq(filename.dirs, LAMBDA d : d # ".."),
     stem |-> filename.stem, ext |-> filename.ext]

\* Lines 125-126 and 179-180: os.path.join(UPLOAD_FOLDER, secure_filename(...)).
FilePath(filename) == <<UPLOAD_FOLDER, secure_filename(filename)>>

\* Lines 133 and 187: the extractor of the endpoint on the signal that
\* process_signal_file returned.  extract_ehg_features raises at its line 53
\* where the spectrum has no candidate bin and extract_ctg_features at its
\* np.max of an empty signal; the feature values are left uninterpreted.
ExtractFeatures(endpoint, a) ==
    IF endpoint = "predict_preterm_signal"
    THEN IF DominantCandidates(Len(a.data)) = 0 THEN Raise("ValueError")
         ELSE Ok(Opaque("extract_ehg_features", a))
    ELSE IF Len(a.data) = 0 THEN Raise("ValueError")
         ELSE Ok(Opaque("extract_ctg_features", a))

\* Lines 136-147 and 190-201: scaling, prediction, explanation and
\* recommendations; get_shap_explanation catches its own exceptions and the
\* pickled scaler and model are taken to accept every feature vector.
Predict(endpoint, features) == Ok(Opaque("predict", <<endpoint, features>>))

\* Worker threads of the server (app.run serves each request in a thread).
NumWorkers == 2
Workers == 1..NumWorkers

\* A file of the upload folder: absent, or its bytes and the worker whose
\* request wrote them.
Absent == [exists |-> FALSE, bytes |-> <<>>, by |-> 0]
Stored(bytes, w) == [exists |-> TRUE, bytes |-> bytes, by |-> w]

\* The names and the contents that clients upload.
UploadNames ==
    { FileName(<<>>, "ctg", "dat"), FileName(<<"..">>, "ctg", "dat"),
      FileName(<<>>, "ehg", "dat"), FileName(<<>>, "notes", "txt"), EmptyName }
UploadBodies == { <<0, 0, 1, 0>>, <<1, 0, 0, 0, 255, 255, 1, 0>> }
Endpoints == {"predict_preterm_signal", "predict_acidemia_signal"}

\* request.files: no 'signal_file' part, or the part's name and bytes.
NoPart == [present |-> FALSE, filename |-> EmptyName, bytes |-> <<>>]
Parts ==
    {NoPart}
    \cup {[present |-> TRUE, filename |-> n, bytes |-> b] :
             n \in UploadNames, b \in UploadBodies}

Paths == {FilePath(n) : n \in {m \in UploadNames : allowed_file(m)}}
EmptyFolder == [p \in Paths |-> Absent]

\* A worker's request: where the handler stands, what was sent, and the
\* handler's locals.
Idle ==
    [pc |-> "idle", endpoint |-> "", file |-> NoPart,
     filepath |-> <<>>, saved |-> FALSE,
     processed |-> FALSE, read |-> Absent,
     signal_data |-> <<>>, features |-> <<>>, status |-> 0]

\* ------------------------------------------------- inputs of the calls

\* Sample values: a baseline of 140 bpm, and values 16 below and above it.
Vals == {124, 140, 156}

\* Signal lengths: around 1, around MinEntropyLen and around the first
\* length whose rolling window holds two samples.
Lens == {1, 2, 3, 4, 8, 9, 10, 20, 21}

Patterns == UNION {[1..n -> Vals] : n \in 1..MaxLen}

\* The first n samples of the periodic signal with period p.
Periodic(p, n) == [i \in 1..n |-> p[((i - 1) % Len(p)) + 1]]

\* The constant recording of the end-to-end scenario: 500 samples of 140.
ScenarioLen == 500
Scenario == [i \in 1..ScenarioLen |-> 140]

Signals == {Periodic(p, n) : p \in Patterns, n \in Lens} \cup {Scenario}

\* No file is involved in a call of the feature extractor.
NoFiles == [hea |-> FALSE, record |-> <<>>, dat |-> <<>>]

NoArgs == [none |-> TRUE]

Return(name, a, r) ==
    /\ pc = "ready"
    /\ pc' = "done"
    /\ op' = name
    /\ args' = a
    /\ ret' = r
    /\ UNCHANGED <<signal_data, nan_mask, fs, raw_reads, uploads, requests>>

\* ------------------------------------- calls of feature_extractor.py

FeatInit ==
    /\ signal_data \in Signals
    /\ nan_mask = [i \in 1..Len(signal_data) |-> FALSE]
    /\ fs = NoFiles
    /\ pc = "ready"
    /\ op = ""
    /\ args = NoArgs
    /\ ret = Ok(<<>>)
    /\ raw_reads = 0
    /\ uploads = EmptyFolder
    /\ requests = [w \in Workers |-> Idle]

Baselines == {calculate_baseline_fhr(signal_data), QInt(140), R(281, 2)}
Thresholds == {QInt(DefaultThreshold), QInt(DefaultThreshold + 1)}

CallDetectAccelerations ==
    \E b \in Baselines, th \in Thresholds :
        Return("detect_accelerations", [baseline |-> b, threshold |-> th],
               Ok(detect_accelerations(signal_data, b, th)))

CallDetectDecelerations ==
    \E b \in Baselines, th \in Thresholds :
        Return("detect_decelerations", [baseline |-> b, threshold |-> th],
               Ok(detect_decelerations(signal_data, b, th)))

CallSampleEntropy ==
    \E m \in 0..DefaultM, r \in {DefaultR, QInt(1)} :
        Return("calculate_sample_entropy", [m |-> m, r |-> r],
               calculate_sample_entropy(signal_data, m, r))

CallExtractEhg ==
    Return("extract_ehg_features", NoArgs, extract_ehg_features(signal_data))

CallExtractCtg ==
    Return("extract_ctg_features", NoArgs, extract_ctg_features(signal_data))

FeatNext ==
    \/ CallDetectAccelerations
    \/ CallDetectDecelerations
    \/ CallSampleEntropy
    \/ CallExtractEhg
    \/ CallExtractCtg

SpecFeat == FeatInit /\ [][FeatNext]_vars

\* -------------------------------- calls of the reader (signal_processor.py)

\* Longest raw file in bytes, and the largest record in rows and channels.
MaxBytes == 4
MaxRows == 2
MaxChannels == 2

\* Byte values: with them a 16-bit item is positive, zero or negative.
ByteVals == {0, 1, 255}

\* The .dat file: unreadable (open fails), or its bytes.
DatFiles ==
    {[readable |-> FALSE, bytes |-> <<>>]}
    \cup {[readable |-> TRUE, bytes |-> b] :
             b \in UNION {[1..n -> ByteVals] : n \in 0..MaxBytes}}

\* What wfdb.rdrecord does where the header exists: it raises, or gives a
\* record whose p_signal has the sample 10 * row + channel in each cell.
NoRecord == [ok |-> FALSE, p_signal |-> <<>>]
Records ==
    {NoRecord}
    \cup {[ok |-> TRUE,
           p_signal |-> [i \in 1..n |-> [c \in 1..k |-> 10 * i + c]]] :
             n \in 1..MaxRows, k \in 1..MaxChannels}

FileStates ==
    {[hea |-> FALSE, record |-> NoRecord, dat |-> d] : d \in DatFiles}
    \cup {[hea |-> TRUE, record |-> r, dat |-> d] : r \in Records, d \in DatFiles}

ReadInit ==
    /\ signal_data = <<>>
    /\ nan_mask = <<>>
    /\ fs \in FileStates
    /\ pc = "ready"
    /\ op = ""
    /\ args = NoArgs
    /\ ret = Ok(<<>>)
    /\ raw_reads = 0
    /\ uploads = EmptyFolder
    /\ requests = [w \in Workers |-> Idle]

CallProcessSignalFile ==
    /\ pc = "ready"
    /\ pc' = "done"
    /\ op' = "process_signal_file"
    /\ args' = NoArgs
    /\ ret' = process_signal_file(fs).ret
    /\ raw_reads' = process_signal_file(fs).reads
    /\ UNCHANGED <<signal_data, nan_mask, fs, uploads, requests>>

CallReadDatFileOnly ==
    /\ pc = "ready"
    /\ pc' = "done"
    /\ op' = "read_dat_file_only"
    /\ args' = NoArgs
    /\ ret' = read_dat_file_only(fs.dat)
    /\ raw_reads' = 1
    /\ UNCHANGED <<signal_data, nan_mask, fs, uploads, requests>>

ReadNext == CallProcessSignalFile \/ CallReadDatFileOnly

SpecRead == ReadInit /\ [][ReadNext]_vars

\* ------------------ calls of preprocess_signal and segment_signal

\* Longest input signal, largest target length and segment length.
MaxPreLen == 4
MaxTarget == 5
MaxSegment == 4

\* Sample values of the preprocessing inputs.
PreVals == {1, 3}

\* Overlap ratios in [0, 1): quarters, which binary floats hold exactly.
Overlaps == {R(k, 4) : k \in 0..3}

Targets ==
    {[none |-> TRUE, n |-> 0]} \cup {[none |-> FALSE, n |-> k] : k \in 0..MaxTarget}

\* A NaN sample is kept as 0 under a TRUE mask.
PreInit ==
    /\ \E n \in 0..MaxPreLen :
          /\ nan_mask \in [1..n -> BOOLEAN]
          /\ signal_data \in [1..n -> PreVals \cup {0}]
          /\ \A i \in 1..n : nan_mask[i] <=> signal_data[i] = 0
    /\ fs = NoFiles
    /\ pc = "ready"
    /\ op = ""
    /\ args = NoArgs
    /\ ret = Ok(<<>>)
    /\ raw_reads = 0
    /\ uploads = EmptyFolder
    /\ requests = [w \in Workers |-> Idle]

CallPreprocessSignal ==
    \E target \in Targets :
        Return("preprocess_signal", [target_length |-> target],
               preprocess_signal(signal_data, nan_mask, target))

CallSegmentSignal ==
    \E L \in 1..MaxSegment, overlap \in Overlaps :
        Return("segment_signal", [segment_length |-> L, overlap |-> overlap],
               segment_signal(signal_data, L, overlap))

PreNext == CallPreprocessSignal \/ CallSegmentSignal

SpecPre == PreInit /\ [][PreNext]_vars

\* ------------------------------------- requests of the server (app.py)

AppInit ==
    /\ signal_data = <<>>
    /\ nan_mask = <<>>
    /\ fs = NoFiles
    /\ pc = "ready"
    /\ op = ""
    /\ args = NoArgs
    /\ ret = Ok(<<>>)
    /\ raw_reads = 0
    /\ uploads = EmptyFolder
    /\ requests = [w \in Workers |-> Idle]

Unused == UNCHANGED <<signal_data, nan_mask, fs, pc, op, args, ret, raw_reads>>

\* The handler returns with the given status; its locals stay as they are.
Respond(w, req, status) ==
    requests' = [requests EXCEPT ![w] = [req EXCEPT !.pc = "returned",
                                                    !.status = status]]

\* Lines 111-121 and 165-175: a request arrives at a free worker; 400
\* without a file part, with an empty name or with a name not allowed.
Receive(w) ==
    /\ requests[w].pc \in {"idle", "returned"}
    /\ \E endpoint \in Endpoints, file \in Parts :
          LET req == [Idle EXCEPT !.endpoint = endpoint, !.file = file]
          IN  IF ~file.present \/ file.filename = EmptyName
                 \/ ~allowed_file(file.filename)
              THEN Respond(w, req, 400)
              ELSE requests' = [requests EXCEPT ![w] = [req EXCEPT !.pc = "received"]]
    /\ UNCHANGED uploads
    /\ Unused

\* Lines 125-127 and 179-181: file.save(filepath) writes the uploaded bytes
\* over whatever the path holds.
SaveFile(w) ==
    /\ requests[w].pc = "received"
    /\ LET filepath == FilePath(requests[w].file.filename)
       IN  /\ uploads' = [uploads EXCEPT ![filepath] = Stored(requests[w].file.bytes, w)]
           /\ requests' = [requests EXCEPT ![w].pc = "saved",
                                           ![w].filepath = filepath,
                                           ![w].saved = TRUE]
    /\ Unused

\* Lines 130 and 184: process_signal_file(filepath) on what the path holds
\* now; no header lies next to an upload.  The except clause of lines
\* 159-160 and 213-214 answers 500.
ProcessSignal(w) ==
    /\ requests[w].pc = "saved"
    /\ LET file == uploads[requests[w].filepath]
           r == process_signal_file(
                    [hea |-> FALSE, record |-> NoRecord,
                     dat |-> [readable |-> file.exists, bytes |-> file.bytes]]).ret
           req == [requests[w] EXCEPT !.processed = TRUE, !.read = file]
       IN  IF r.raised THEN Respond(w, req, 500)
           ELSE requests' = [requests EXCEPT ![w] =
                                [req EXCEPT !.pc = "read", !.signal_data = r.value]]
    /\ UNCHANGED uploads
    /\ Unused

\* Lines 133-147 and 187-201: features and prediction; 500 where the
\* extractor raises.
ExtractAndPredict(w) ==
    /\ requests[w].pc = "read"
    /\ LET features == ExtractFeatures(requests[w].endpoint, requests[w].signal_data)
       IN  IF features.raised THEN Respond(w, requests[w], 500)
           ELSE requests' = [requests EXCEPT ![w].pc = "predicted",
                                             ![w].features = features.value]
    /\ UNCHANGED uploads
    /\ Unused

\* Lines 150-157 and 204-211: os.remove(filepath) and the answer; os.remove
\* raises FileNotFoundError where the path holds nothing, and the except
\* clause answers 500.
RemoveFile(w) ==
    /\ requests[w].pc = "predicted"
    /\ IF uploads[requests[w].filepath].exists
       THEN /\ uploads' = [uploads EXCEPT ![requests[w].filepath] = Absent]
            /\ Respond(w, requests[w], 200)
       ELSE /\ UNCHANGED uploads
            /\ Respond(w, requests[w], 500)
    /\ Unused

AppNext ==
    \E w \in Workers :
        \/ Receive(w)
        \/ SaveFile(w)
        \/ ProcessSignal(w)
        \/ ExtractAndPredict(w)
        \/ RemoveFile(w)

SpecApp == AppInit /\ [][AppNext]_vars

Returned(name) == pc = "done" /\ op = name

\* ---------------------------------------- properties: feature extractor

IsConstant(s) == \A i \in 1..Len(s) : s[i] = s[1]

\* Sample i lies strictly above baseline + threshold.
Above(s, i, baseline, threshold) == QLt(QAdd(baseline, threshold), QInt(s[i]))

\* The first samples of the maximal contiguous runs above baseline + threshold.
RunStarts(s, baseline, threshold) ==
    {i \in 1..Len(s) : /\ Above(s, i, baseline, threshold)
                       /\ (i = 1 \/ ~Above(s, i - 1, baseline, threshold))}

\* C1: detect_accelerations returns the number of maximal contiguous runs of
\* samples strictly greater than baseline + threshold, for every signal,
\* baseline and threshold.
C1_AccelerationsCountRuns ==
    Returned("detect_accelerations") =>
        /\ ~ret.raised
        /\ ret.value = Cardinality(RunStarts(signal_data, args.baseline, args.threshold))

\* C1 witness: two excursions of three contiguous samples above 140 + 15,
\* each followed by a return to the baseline, are counted as 2.
C1_Witness ==
    /\ Returned("detect_accelerations")
    /\ signal_data = <<156, 156, 156, 140, 156, 156, 156, 140>>
    /\ args.baseline = QInt(140)
    /\ args.threshold = QInt(DefaultThreshold)
    /\ ret.value = 2

\* C3: extract_ehg_features returns exactly 16 values without raising for
\* every signal of length >= 1 (the claim as stated; lengths 1 to 3 refute it).
C3_EhgAlwaysSixteen ==
    Returned("extract_ehg_features") =>
        /\ ~ret.raised
        /\ Len(ret.value) = 16

\* C4: extract_ctg_features returns exactly 14 values without raising for
\* every signal of length >= 1, whichever branch the short-term and the
\* long-term variability take: each branch appends exactly one value.
C4_CtgAlwaysFourteen ==
    Returned("extract_ctg_features") =>
        /\ ~ret.raised
        /\ Len(ret.value) = 14
        /\ Len(ShortTerm(signal_data)) = 1
        /\ Len(LongTerm(signal_data)) = 1

\* C4 witness: a signal of one sample, which takes both else branches.
C4_Witness ==
    /\ Returned("extract_ctg_features")
    /\ Len(signal_data) = 1
    /\ WindowSize(signal_data) = 0
    /\ Len(ret.value) = 14

\* C7: calculate_sample_entropy returns exactly 0.0 for every signal shorter
\* than 10 samples, whatever m and r are.
C7_EntropyZeroBelowTen ==
    (Returned("calculate_sample_entropy") /\ Len(signal_data) < 10) =>
        ret = Ok(Zero)

\* C7 witness: a signal of 9 samples whose template counts phi(2) and phi(3)
\* are both positive and differ, so only the length floor makes the result 0.0.
C7_Witness ==
    /\ Returned("calculate_sample_entropy")
    /\ Len(signal_data) = 9
    /\ args.m = DefaultM
    /\ Phi(signal_data, args.m, args.r) > Phi(signal_data, args.m + 1, args.r)
    /\ Phi(signal_data, args.m + 1, args.r) > 0
    /\ ret = Ok(Zero)

\* C8: calculate_sample_entropy never raises: a failure inside the
\* computation gives 0.0, and no call of extract_ctg_features, nor any call of
\* extract_ehg_features that got past the dominant frequency, ends in an
\* exception.
C8_EntropyNeverRaises ==
    /\ Returned("calculate_sample_entropy") =>
          /\ ~ret.raised
          /\ EntropyBody(signal_data, args.m, args.r).raised => ret = Ok(Zero)
          /\ IsConstant(signal_data) => ret = Ok(Zero)
    /\ Returned("extract_ctg_features") => ~ret.raised
    /\ (Returned("extract_ehg_features") /\ DominantCandidates(Len(signal_data)) > 0)
          => ~ret.raised

\* C8 witness: with m = 0 the template comparison raises ValueError inside
\* the try block, and the call still returns 0.0.
C8_Witness ==
    /\ Returned("calculate_sample_entropy")
    /\ Len(signal_data) >= MinEntropyLen
    /\ EntropyBody(signal_data, args.m, args.r).raised
    /\ ret = Ok(Zero)

C5_RawReadAtMostOnce ==
    (Returned("process_signal_file") /\ ~fs.hea) =>
        /\ raw_reads <= 1
        /\ ret.raised => (ret.exc = "Exception" /\ ret.value = <<"OSError">>)

\* Channel 0 of a record's p_signal.
FirstChannel(p_signal) == [i \in 1..Len(p_signal) |-> p_signal[i][1]]

\* C6: process_signal_file returns what read_dat_file_only gives on the same
\* file whenever the header is absent or the structured read raises, returns
\* channel 0 of the record only when the header exists and the structured
\* read succeeds, and a structured-read failure alone is never an error of
\* the call.
C6_FallbackSelection ==
    Returned("process_signal_file") =>
        /\ (~fs.hea \/ ~fs.record.ok) => ret = read_dat_file_only(fs.dat)
        /\ (fs.hea /\ fs.record.ok) =>
              ret = Ok(Plain(FirstChannel(fs.record.p_signal)))
        /\ (fs.hea /\ ~fs.record.ok /\ fs.dat.readable) => ~ret.raised

\* C6 witness: the header exists, the structured read raises, and the call
\* returns the z-scored raw samples of a readable two-item file.
C6_Witness ==
    /\ Returned("process_signal_file")
    /\ fs.hea /\ ~fs.record.ok /\ fs.dat.readable
    /\ Len(fs.dat.bytes) = 4
    /\ ~ret.raised
    /\ Len(ret.value.data) = 2
    /\ ret.value.eps = Epsilon
    /\ raw_reads = 1

\* ----------------------- properties: preprocess_signal, segment_signal

\* The step the specification gives: the product rounded down, at least 1.
StepAtLeastOne(segment_length, overlap) ==
    Max2(1, Floor(QMul(QInt(segment_length), QSub(QInt(1), overlap))))

\* C2: for every signal, segment length L >= 1 and overlap in [0, 1),
\* segment_signal returns only segments of length L, whose starts are
\* max(1, floor(L * (1 - overlap))) samples apart (the claim as stated; a
\* product below 1, as for L = 1 and overlap 0.5, refutes it).
C2_SegmentStepAtLeastOne ==
    Returned("segment_signal") =>
        LET L == args.segment_length
            step == StepAtLeastOne(L, args.overlap)
        IN  /\ ~ret.raised
            /\ \A k \in 1..Len(ret.value) :
                  /\ Len(ret.value[k]) = L
                  /\ (k - 1) * step + L <= Len(signal_data)
                  /\ ret.value[k] =
                        Slice(signal_data, (k - 1) * step + 1, (k - 1) * step + L)

NoNaN == \A i \in 1..Len(nan_mask) : ~nan_mask[i]

ResampleInput == Normalize(Kept(signal_data, nan_mask))

\* Every value of out lies between the smallest and the largest value of inp.
WithinRange(inp, out) ==
    \A i \in 1..Len(out) :
        /\ \E j \in 1..Len(inp) : QLe(inp[j], out[i])
        /\ \E k \in 1..Len(inp) : QLe(out[i], inp[k])

\* What the resample step gives for a target length other than the
\* signal's: exactly that many samples, on the same scale, none outside the
\* range of the input.
ResampledInRange ==
    /\ ~ret.raised
    /\ Len(ret.value.data) = args.target_length.n
    /\ ret.value.over = ResampleInput.over
    /\ ret.value.eps = ResampleInput.eps
    /\ WithinRange(ResampleInput.data, ret.value.data)

\* C11 as stated: the resample step is the identity when target_length is
\* the length of the signal that enters it, and for any other target length
\* the output has exactly target_length samples, each within the range of
\* the input (an empty input with a target >= 1 refutes it: np.interp raises).
C11_ResampleAnyInput ==
    (Returned("preprocess_signal") /\ ~args.target_length.none) =>
        IF args.target_length.n = Len(ResampleInput.data)
        THEN ret = Ok(ResampleInput)
        ELSE ResampledInRange

\* C11 amended: the same for every signal that is not empty when it enters
\* the step; an empty one is returned as it is for target 0 and makes the
\* call raise ValueError for any other target.
C11_ResampleNonEmpty ==
    (Returned("preprocess_signal") /\ ~args.target_length.none) =>
        IF args.target_length.n = Len(ResampleInput.data)
        THEN ret = Ok(ResampleInput)
        ELSE IF Len(ResampleInput.data) >= 1
        THEN ResampledInRange
        ELSE ret = Raise("ValueError")

\* C11 witness: two samples 1, 3 resampled to five: the z-scores -1, 1 become
\* -1, -1/2, 0, 1/2, 1.
C11_Witness ==
    /\ Returned("preprocess_signal")
    /\ signal_data = <<1, 3>>
    /\ NoNaN
    /\ ~args.target_length.none
    /\ args.target_length.n = 5
    /\ ~ret.raised
    /\ ret.value.data = <<QInt(0 - 1), R(0 - 1, 2), Zero, R(1, 2), QInt(1)>>

\* The variances of every full window of size WindowSize(s): one for each of
\* the start positions 0..N-w.
AllFullWindows(s) ==
    [i \in 1..(Len(s) - WindowSize(s) + 1) |->
        Var(Slice(s, i, i + WindowSize(s) - 1))]

\* The share of each non-zero variance among the windows vs: two means of
\* standard deviations with the same shares are the same number.
Shares(vs) ==
    [v \in {vs[i] : i \in 1..Len(vs)} \ {Zero} |->
        R(Cardinality({i \in 1..Len(vs) : vs[i] = v}), Len(vs))]

\* x and y, each Zero or a mean of standard deviations, are the same number.
SameMean(x, y) ==
    IF x = Zero \/ y = Zero THEN x = y ELSE Shares(x.of) = Shares(y.of)

\* C12: the long-term variability returned by extract_ctg_features is the
\* mean of the standard deviation over every full window of size
\* w = min(60, N div 10), all N - w + 1 of them, and 0 when w <= 1.
C12_LongTermOverAllWindows ==
    (Returned("extract_ctg_features") /\ ~ret.raised) =>
        SameMean(ret.value[6],
                 IF WindowSize(signal_data) > 1
                 THEN MeanOfStds(AllFullWindows(signal_data))
                 ELSE Zero)

\* -------------------------------------------- properties: the server

\* The request of worker w has written its file and has not returned.
InFlight(w) == requests[w].pc \in {"saved", "read", "predicted"}

\* C13: requests in flight at the same time use different file paths, and
\* the file a request hands to process_signal_file is the one it saved
\* itself, not overwritten and not deleted by another request.
C13_DistinctPathsInFlight ==
    /\ \A v \in Workers : \A w \in Workers :
          (v # w /\ InFlight(v) /\ InFlight(w)) =>
              requests[v].filepath # requests[w].filepath
    /\ \A w \in Workers :
          requests[w].processed =>
              requests[w].read = Stored(requests[w].file.bytes, w)

\* C14: once a request that saved a file has returned, with whatever
\* answer, the file it saved exists no more.
C14_TempFileGoneOnReturn ==
    \A w \in Workers :
        (requests[w].pc = "returned" /\ requests[w].saved) =>
            uploads[requests[w].filepath] # Stored(requests[w].file.bytes, w)
====
